---- MODULE Spec2Model ----
(***************************************************************************)
(* Consistent-hash rings of package consistenthash: HashRing (string keys, *)
(* 32-bit positions) and Int64HashRing (int64 keys, 64-bit positions).     *)
(* Goroutines call AddNode, RemoveNode, GetNode and Len on one shared ring.*)
(* A call is cut into steps where another goroutine can see or change what *)
(* it works on: taking the lock, each loop iteration, the append, the      *)
(* sort, the assignment of the filtered slice, the indexing, the unlock.   *)
(* murmur3's Write never returns an error; the failure AddNode checks for  *)
(* is injected at that check, the one place where the code looks at it.    *)
(*                                                                         *)
(* Scaling.  A 64-bit digest is modelled with HashBits bits and the        *)
(* 32-bit position of the string ring with HashBits \div 2 bits; int64 is  *)
(* the two's-complement range of HashBits bits.  Node names are 1 ..       *)
(* NumNames ("node1", "node2", ...), the empty string is NoName, and the   *)
(* string "name:i" is the pair <<name, i>>.                                *)
(*                                                                         *)
(* Package xsync: Closure (closure.go) and Stopper (stopper.go) are the    *)
(* same state machine under renaming (Close/Stop, Closing/Stopping,        *)
(* Closed/Stopped); the model uses the names of Closure.  Goroutines call  *)
(* TriggerClose, DoClose and WaitClosed on one shared Closure; every       *)
(* atomic Load, CompareAndSwap, channel close and mutex operation is a     *)
(* step.  The function handed to DoClose is opaque: it starts and returns. *)
(***************************************************************************)
EXTENDS Integers, Sequences, FiniteSets, Bags, TLC

\* ------------------------------------------------------------------ bounds
\* goroutines sharing the ring
NumProcs == 2
\* distinct node names
NumNames == 2
\* largest virtualSpots argument tried
MaxSpots == 2
\* AddNode is not called once the ring would outgrow this
MaxNodes == 4
\* dictionaries of concrete strings behind the names
MaxDict == 1
\* idle hashers sync.Pool keeps; further Puts are dropped
MaxPool == 1
\* width standing for the 64 bits of a digest
HashBits == 4
\* lookup strings that are not replica keys
NumOther == 2
\* goroutines sharing the Closure
NumClosers == 3
\* distinct node names where the claim is about several owners
NumTopoNames == 3

\* ------------------------------------------------------- program constants
DefaultVirtualSpots == 160

Procs   == 1 .. NumProcs
Names   == 1 .. NumNames
TopoNames == 1 .. NumTopoNames
NoName  == 0
NoProc  == 0
NoHasher == 0 - 1
StaleHasher == 1

RECURSIVE Pow2(_)
Pow2(n) == IF n = 0 THEN 1 ELSE 2 * Pow2(n - 1)

Uint64Mod == Pow2(HashBits)
Uint32Mod == Pow2(HashBits \div 2)
MaxInt64  == Pow2(HashBits - 1) - 1
MinInt64  == 0 - Pow2(HashBits - 1)

\* the strings a caller passes to the string ring's GetNode: every replica
\* key "name:i" and NumOther strings <<NoName, j>> that are no replica key
StrKeys == (Names \X (0 .. MaxSpots - 1)) \cup ({NoName} \X (0 .. NumOther - 1))
\* the int64 keys a caller passes to the int64 ring's GetNode
Int64Keys == {MinInt64, 0 - 3, 3, MaxInt64}

VARIABLES
    variant,       \* "string": HashRing, "int64": Int64HashRing
    spotsArg,      \* history: the argument NewRing / NewInt64Ring was called with
    dict,          \* which concrete strings the names and keys stand for
    virtualSpots,  \* h.virtualSpots
    nodes,         \* h.nodes
    writer,        \* RWMutex: the goroutine holding the write lock, or NoProc
    readers,       \* RWMutex: the goroutines holding a read lock
    pool,          \* h.hashCache: bag of the states of the idle hashers
    pc,            \* per goroutine: where it is in its call
    arg,           \* per goroutine: nodeName of its AddNode or RemoveNode call
    keyArg,        \* per goroutine: key of its GetNode call
    i,             \* per goroutine: loop index
    buf,           \* per goroutine: AddNode's local nodes
    filtered,      \* per goroutine: RemoveNode's len(filtered)
    hasher,        \* per goroutine: state of the hasher it holds, or NoHasher
    idx,           \* per goroutine: GetNode's idx
    ret,           \* per goroutine: what its call is about to return
    committed,     \* history: h.nodes when the last mutation completed
    removed,       \* history: names whose RemoveNode returned, no AddNode since
    batches,       \* history: per name, successful AddNode calls since its last RemoveNode
    closeTimeout,  \* s.closeTimeout
    state,         \* s.state
    closeTrigger,  \* s.closeTrigger: TRUE once the channel is closed
    closingChan,   \* s.closingChan: TRUE once the channel is closed
    closedChan,    \* s.closedChan: TRUE once the channel is closed
    triggerLock,   \* s.triggerLock: the goroutine holding it, or NoProc
    closingLock,   \* s.closingLock: the goroutine holding it, or NoProc
    xpc,           \* per goroutine: where it is in its call on the Closure
    currentState,  \* per goroutine: transitionToClosing's currentState
    transitioned,  \* per goroutine: what transitionToClosing returned
    xret,          \* per goroutine: what DoClose is about to return
    fstate,        \* per goroutine: the f it started: "none", "running", "done"
    launched,      \* history: how often an f was started (2: more than once)
    doubleClose,   \* history: a closed channel was closed again (a panic)
    returned       \* history: the kinds of calls that have returned

config == <<variant, spotsArg, dict, virtualSpots>>
mutex  == <<writer, readers>>
chans  == <<closeTrigger, closingChan, closedChan, doubleClose>>
xlocks == <<triggerLock, closingLock>>
xlocal == <<currentState, transitioned, xret>>
\* the Closure and the goroutines that use it
closure == <<closeTimeout, state, chans, xlocks, xpc, xlocal, fstate, launched,
             returned>>
\* the ring and the goroutines that use it
ring == <<variant, spotsArg, dict, virtualSpots, nodes, writer, readers, pool,
          pc, arg, keyArg, i, buf, filtered, hasher, idx, ret,
          committed, removed, batches>>
vars  == <<ring, closure>>

NoRet == [nodeName |-> NoName, ok |-> FALSE, err |-> FALSE, len |-> 0,
          panic |-> FALSE]

\* ------------------------------------------------------------ murmur3 hasher
\* The digests of 31 consecutive hasher states; dict shifts the window, so
\* that each dictionary gives the names and keys other digests.
MurmurStream ==
    <<1, 8, 2, 3, 6, 10, 13, 7, 9, 6, 10, 13, 13, 2, 5, 9,
      13, 1, 4, 15, 0, 7, 8, 3, 6, 9, 10, 6, 11, 15, 6>>

Code(key) == key[1] * 5 + key[2]

\* mutant: the hasher is not reset before the Write
HashResetMissing(h) == h

\* hash.Reset()
HashReset(h) == 0
\* hash.Write([]byte(key)): the new state depends on the old state
HashWrite(h, key) == (h * 11 + Code(key) + 1) % Len(MurmurStream)
\* hasher.Sum64()
Sum64(d, h) == MurmurStream[((d * 7 + h) % Len(MurmurStream)) + 1] % Uint64Mod
\* mutant: the first four bytes of the digest are read
Uint32Head(digest) == digest \div Pow2(HashBits - (HashBits \div 2))

\* binary.BigEndian.Uint32(hashBytes[len(hashBytes)-4:]) of hash.Sum(nil)
Uint32Tail(digest) == digest % Uint32Mod

\* convertToInt64
convertToInt64(val) == IF val > MaxInt64 THEN MaxInt64 ELSE val

\* mutant: the argument is taken as it is, without the default
NewRingKeepsArg(spots) == spots

\* NewRing / NewInt64Ring
NewRing(spots) == IF spots <= 0 THEN DefaultVirtualSpots ELSE spots

\* the ringNode / int64RingNode AddNode builds from the digest of "name:i"
ringNode(v, name, k, digest) ==
    IF v = "string"
    THEN [nodeName |-> name, key |-> <<name, k>>, hash |-> Uint32Tail(digest)]
    ELSE [nodeName |-> name, key |-> <<convertToInt64(digest)>>, hash |-> digest]

\* ---------------------------------------------------------------- sort.Sort
\* ringNodes.Less
Less(a, b) == a.hash < b.hash

\* s without its k-th element
Drop(s, k) == SubSeq(s, 1, k - 1) \o SubSeq(s, k + 1, Len(s))

\* sort.Sort is not stable: it may leave elements that compare equal in any
\* order, so it yields any sorted permutation of its argument (any element
\* that no other is Less than comes first, then the rest likewise)
RECURSIVE SortOutcomes(_)
SortOutcomes(s) ==
    IF Len(s) = 0 THEN {<<>>}
    ELSE UNION {{<<s[k]>> \o t : t \in SortOutcomes(Drop(s, k))} :
                   k \in {m \in 1 .. Len(s) :
                              \A j \in 1 .. Len(s) : ~Less(s[j], s[m])}}

\* -------------------------------------------------------------- sort.Search
RECURSIVE SearchLoop(_, _, _, _)
SearchLoop(s, target, lo, hi) ==
    IF lo < hi
    THEN LET h == (lo + hi) \div 2
         IN  IF ~(s[h + 1].hash >= target)
             THEN SearchLoop(s, target, h + 1, hi)
             ELSE SearchLoop(s, target, lo, h)
    ELSE lo

\* mutant: the predicate compares with > instead of >=
SearchStrict(s, target) == SearchLoop(s, target + 1, 0, Len(s))

\* sort.Search(len(h.nodes), func(i) { return h.nodes[i].hash >= targetHash })
Search(s, target) == SearchLoop(s, target, 0, Len(s))

\* mutant: an index past the end wraps to the last node
WrapIndexToLast(s, k) == IF k = Len(s) THEN Len(s) - 1 ELSE k

\* mutant: the wrap-around to index 0 is missing
WrapIndexMissing(s, k) == k

\* if idx == len(h.nodes) { idx = 0 }
WrapIndex(s, k) == IF k = Len(s) THEN 0 ELSE k

\* ----------------------------------------------------------- lookup targets
\* mutant: the key is converted without the negation
Int64TargetNoNegation(key) == (key + Uint64Mod) % Uint64Mod

\* Int64HashRing.GetNode: uint64(key), or uint64(-key) with -key wrapping
Int64Target(key) ==
    IF key >= 0 THEN key
    ELSE LET neg == IF key = MinInt64 THEN MinInt64 ELSE 0 - key
         IN  (neg + Uint64Mod) % Uint64Mod

\* mutant: the lookup searches for the whole digest, not its last four bytes
StringTargetWholeDigest(d, h, key) == Sum64(d, HashWrite(HashReset(h), key))

\* mutant: GetNode writes the key without the Reset before it
StringTargetNoReset(d, h, key) == Uint32Tail(Sum64(d, HashWrite(h, key)))

\* HashRing.GetNode: Reset, Write(key), Sum, last four bytes
StringTarget(d, h, key) == Uint32Tail(Sum64(d, HashWrite(HashReset(h), key)))

LookupKeys(v) == IF v = "string" THEN StrKeys ELSE Int64Keys

\* the key of a goroutine that is in no GetNode call
NoKey(v) == IF v = "string" THEN <<NoName, 0>> ELSE 0

\* ------------------------------------------------------------------ RWMutex
\* mutant: Lock does not wait for another writer to leave
CanLockIgnoresWriter == readers = {}

\* mutant: Lock does not wait for the readers to leave
CanLockIgnoresReaders == writer = NoProc

\* Lock returns once no goroutine holds the lock
CanLock == writer = NoProc /\ readers = {}

\* mutant: RLock does not wait for the writer to leave
CanRLockIgnoresWriter == TRUE

\* RLock returns once no goroutine holds the write lock; that a waiting
\* Lock holds back later RLock calls is left out, which only adds runs
CanRLock == writer = NoProc

\* ---------------------------------------------------------------- sync.Pool
\* Get: an idle hasher, or a new one from New (murmur3.New64())
PoolGet == {<<h, pool (-) SetToBag({h})>> : h \in BagToSet(pool)}
               \cup {<<0, pool>>}
\* What an idle hasher carries matters only to a Write that no Reset
\* precedes, so an idle hasher is kept as clean (0) or as StaleHasher.
IdleHasher(h) == IF h = 0 THEN 0 ELSE StaleHasher
\* Put: the pool keeps the hasher, or drops it
PoolPut(h) == {pool} \cup
              (IF BagCardinality(pool) < MaxPool
               THEN {pool (+) SetToBag({IdleHasher(h)})} ELSE {})

\* ------------------------------------------------------------ xsync.Closure
Closers == 1 .. NumClosers

stateIdle == 0
stateTriggered == 1
stateClosing == 2
stateClosed == 3

\* NewClosure(timeout)
NewClosure(timeout) ==
    /\ closeTimeout = timeout
    /\ state = stateIdle
    /\ closeTrigger = FALSE
    /\ closingChan = FALSE
    /\ closedChan = FALSE
    /\ triggerLock = NoProc
    /\ closingLock = NoProc
    /\ xpc = [p \in Closers |-> "idle"]
    /\ currentState = [p \in Closers |-> stateIdle]
    /\ transitioned = [p \in Closers |-> FALSE]
    /\ xret = [p \in Closers |-> "none"]
    /\ fstate = [p \in Closers |-> "none"]
    /\ launched = 0
    /\ doubleClose = FALSE
    /\ returned = {}

\* a ring after NewRing / NewInt64Ring, beside a Closure its callers leave alone
Init ==
    /\ NewClosure(0)
    /\ variant \in {"string", "int64"}
    /\ dict \in 0 .. MaxDict
    /\ \E spots \in (0 - 1) .. MaxSpots :
           /\ spotsArg = spots
           /\ virtualSpots = NewRing(spots)
    /\ nodes = <<>>
    /\ writer = NoProc
    /\ readers = {}
    /\ pool = EmptyBag
    /\ pc = [p \in Procs |-> "idle"]
    /\ arg = [p \in Procs |-> 0]
    /\ keyArg = [p \in Procs |-> NoKey(variant)]
    /\ i = [p \in Procs |-> 0]
    /\ buf = [p \in Procs |-> <<>>]
    /\ filtered = [p \in Procs |-> 0]
    /\ hasher = [p \in Procs |-> NoHasher]
    /\ idx = [p \in Procs |-> 0]
    /\ ret = [p \in Procs |-> NoRet]
    /\ committed = <<>>
    /\ removed = {}
    /\ batches = [n \in Names |-> 0]

\* a goroutine between calls
Idle(p) == pc[p] = "idle"

\* AddNode calls that have not appended their batch yet
Adding(p) == pc[p] \in {"add_lock", "add_loop"}

\* --------------------------------------------------------------- AddNode
\* the call: the goroutine reaches h.Lock()
CallAddNode(p, name) ==
    /\ Idle(p)
    /\ Len(nodes) + virtualSpots * (1 + Cardinality({q \in Procs : Adding(q)}))
           <= MaxNodes
    /\ pc' = [pc EXCEPT ![p] = "add_lock"]
    /\ arg' = [arg EXCEPT ![p] = name]
    /\ ret' = [ret EXCEPT ![p] = NoRet]
    /\ UNCHANGED <<config, closure, keyArg, nodes, mutex, pool, i, buf,
                   filtered, hasher, idx, committed, removed, batches>>

\* h.Lock(); hasher := h.hashCache.Get(); nodes := make(..., 0, h.virtualSpots)
AddLock(p) ==
    /\ pc[p] = "add_lock"
    /\ CanLock
    /\ writer' = p
    /\ \E g \in PoolGet :
           /\ hasher' = [hasher EXCEPT ![p] = g[1]]
           /\ pool' = g[2]
    /\ buf' = [buf EXCEPT ![p] = <<>>]
    /\ i' = [i EXCEPT ![p] = 0]
    /\ pc' = [pc EXCEPT ![p] = "add_loop"]
    /\ UNCHANGED <<config, closure, nodes, readers, arg, keyArg, filtered,
                   idx, ret, committed, removed, batches>>

\* mutant: the loop appends to h.nodes itself instead of the local slice
AddGenerateInPlace(p) ==
    /\ pc[p] = "add_loop"
    /\ i[p] < virtualSpots
    /\ LET h1 == HashWrite(HashReset(hasher[p]), <<arg[p], i[p]>>)
       IN  /\ hasher' = [hasher EXCEPT ![p] = h1]
           /\ nodes' = Append(nodes,
                  ringNode(variant, arg[p], i[p], Sum64(dict, h1)))
    /\ i' = [i EXCEPT ![p] = @ + 1]
    /\ UNCHANGED <<config, closure, mutex, pool, pc, arg, keyArg, buf,
                   filtered, idx, ret, committed, removed, batches>>

\* mutant: a replica whose position is in the batch already is left out
AddGenerateDistinct(p) ==
    /\ pc[p] = "add_loop"
    /\ i[p] < virtualSpots
    /\ LET h1 == HashWrite(HashReset(hasher[p]), <<arg[p], i[p]>>)
           n  == ringNode(variant, arg[p], i[p], Sum64(dict, h1))
       IN  /\ hasher' = [hasher EXCEPT ![p] = h1]
           /\ buf' = [buf EXCEPT ![p] =
                  IF \E k \in 1 .. Len(@) : @[k].hash = n.hash
                  THEN @ ELSE Append(@, n)]
    /\ i' = [i EXCEPT ![p] = @ + 1]
    /\ UNCHANGED <<config, closure, nodes, mutex, pool, pc, arg, keyArg,
                   filtered, idx, ret, committed, removed, batches>>

\* one iteration of the loop whose Write succeeds
AddGenerate(p) ==
    /\ pc[p] = "add_loop"
    /\ i[p] < virtualSpots
    /\ LET h1 == HashWrite(HashReset(hasher[p]), <<arg[p], i[p]>>)
       IN  /\ hasher' = [hasher EXCEPT ![p] = h1]
           /\ buf' = [buf EXCEPT ![p] =
                  Append(@, ringNode(variant, arg[p], i[p], Sum64(dict, h1)))]
    /\ i' = [i EXCEPT ![p] = @ + 1]
    /\ UNCHANGED <<config, closure, nodes, mutex, pool, pc, arg, keyArg,
                   filtered, idx, ret, committed, removed, batches>>

\* one iteration of the loop whose Write fails: return errors.Wrap(err, ...)
AddWriteFails(p) ==
    /\ pc[p] = "add_loop"
    /\ i[p] < virtualSpots
    /\ hasher' = [hasher EXCEPT ![p] = HashReset(@)]
    /\ ret' = [ret EXCEPT ![p] = [NoRet EXCEPT !.err = TRUE]]
    /\ pc' = [pc EXCEPT ![p] = "add_unlock"]
    /\ UNCHANGED <<config, closure, nodes, mutex, pool, arg, keyArg, i, buf,
                   filtered, idx, committed, removed, batches>>

\* mutant: a name that is in the ring already is not added again
AddAppendIfAbsent(p) ==
    /\ pc[p] = "add_loop"
    /\ i[p] = virtualSpots
    /\ nodes' = IF \E k \in 1 .. Len(nodes) : nodes[k].nodeName = arg[p]
                THEN nodes ELSE nodes \o buf[p]
    /\ pc' = [pc EXCEPT ![p] = "add_sort"]
    /\ UNCHANGED <<config, closure, mutex, pool, arg, keyArg, i, buf,
                   filtered, hasher, idx, ret, committed, removed, batches>>

\* h.nodes = append(h.nodes, nodes...)
AddAppend(p) ==
    /\ pc[p] = "add_loop"
    /\ i[p] = virtualSpots
    /\ nodes' = nodes \o buf[p]
    /\ pc' = [pc EXCEPT ![p] = "add_sort"]
    /\ UNCHANGED <<config, closure, mutex, pool, arg, keyArg, i, buf,
                   filtered, hasher, idx, ret, committed, removed, batches>>

\* mutant: the sort.Sort call is missing
AddSortMissing(p) ==
    /\ pc[p] = "add_sort"
    /\ pc' = [pc EXCEPT ![p] = "add_unlock"]
    /\ UNCHANGED <<config, closure, nodes, mutex, pool, arg, keyArg, i, buf,
                   filtered, hasher, idx, ret, committed, removed, batches>>

\* sort.Sort(h.nodes)
AddSort(p) ==
    /\ pc[p] = "add_sort"
    /\ nodes' \in SortOutcomes(nodes)
    /\ pc' = [pc EXCEPT ![p] = "add_unlock"]
    /\ UNCHANGED <<config, closure, mutex, pool, arg, keyArg, i, buf,
                   filtered, hasher, idx, ret, committed, removed, batches>>

\* mutant: the error return skips the Put and keeps the hasher
AddUnlockNoPutOnError(p) ==
    /\ pc[p] = "add_unlock"
    /\ IF ret[p].err
       THEN UNCHANGED <<pool, hasher>>
       ELSE /\ pool' \in PoolPut(hasher[p])
            /\ hasher' = [hasher EXCEPT ![p] = NoHasher]
    /\ writer' = IF writer = p THEN NoProc ELSE writer
    /\ buf' = [buf EXCEPT ![p] = <<>>]
    /\ i' = [i EXCEPT ![p] = 0]
    /\ committed' = nodes
    /\ removed' = IF ret[p].err THEN removed ELSE removed \ {arg[p]}
    /\ batches' = IF ret[p].err THEN batches
                  ELSE [batches EXCEPT ![arg[p]] = @ + 1]
    /\ pc' = [pc EXCEPT ![p] = "idle"]
    /\ arg' = [arg EXCEPT ![p] = 0]
    /\ ret' = [ret EXCEPT ![p] = NoRet]
    /\ UNCHANGED <<config, closure, keyArg, nodes, readers, filtered, idx>>

\* the deferred h.hashCache.Put(hasher) and h.Unlock(); AddNode returns
AddUnlock(p) ==
    /\ pc[p] = "add_unlock"
    /\ pool' \in PoolPut(hasher[p])
    /\ hasher' = [hasher EXCEPT ![p] = NoHasher]
    /\ writer' = IF writer = p THEN NoProc ELSE writer
    /\ buf' = [buf EXCEPT ![p] = <<>>]
    /\ i' = [i EXCEPT ![p] = 0]
    /\ committed' = nodes
    /\ removed' = IF ret[p].err THEN removed ELSE removed \ {arg[p]}
    /\ batches' = IF ret[p].err THEN batches
                  ELSE [batches EXCEPT ![arg[p]] = @ + 1]
    /\ pc' = [pc EXCEPT ![p] = "idle"]
    /\ arg' = [arg EXCEPT ![p] = 0]
    /\ ret' = [ret EXCEPT ![p] = NoRet]
    /\ UNCHANGED <<config, closure, keyArg, nodes, readers, filtered, idx>>

\* ------------------------------------------------------------- RemoveNode
CallRemoveNode(p, name) ==
    /\ Idle(p)
    /\ pc' = [pc EXCEPT ![p] = "rem_lock"]
    /\ arg' = [arg EXCEPT ![p] = name]
    /\ ret' = [ret EXCEPT ![p] = NoRet]
    /\ UNCHANGED <<config, closure, keyArg, nodes, mutex, pool, i, buf,
                   filtered, hasher, idx, committed, removed, batches>>

\* h.Lock(); filtered := h.nodes[:0]
RemLock(p) ==
    /\ pc[p] = "rem_lock"
    /\ CanLock
    /\ writer' = p
    /\ filtered' = [filtered EXCEPT ![p] = 0]
    /\ i' = [i EXCEPT ![p] = 0]
    /\ pc' = [pc EXCEPT ![p] = "rem_loop"]
    /\ UNCHANGED <<config, closure, nodes, readers, pool, arg, keyArg, buf,
                   hasher, idx, ret, committed, removed, batches>>

\* mutant: the loop deletes one batch of virtualSpots nodes and keeps the rest
RemFilterOneBatch(p) ==
    /\ pc[p] = "rem_loop"
    /\ i[p] < Len(nodes)
    /\ LET n == nodes[i[p] + 1]
       IN  IF n.nodeName # arg[p] \/ i[p] - filtered[p] >= virtualSpots
           THEN /\ nodes' = [nodes EXCEPT ![filtered[p] + 1] = n]
                /\ filtered' = [filtered EXCEPT ![p] = @ + 1]
           ELSE UNCHANGED <<nodes, filtered>>
    /\ i' = [i EXCEPT ![p] = @ + 1]
    /\ UNCHANGED <<config, closure, mutex, pool, pc, arg, keyArg, buf, hasher,
                   idx, ret, committed, removed, batches>>

\* one iteration of for _, n := range h.nodes: filtered shares the array of
\* h.nodes, so append(filtered, n) overwrites h.nodes[len(filtered)]
RemFilter(p) ==
    /\ pc[p] = "rem_loop"
    /\ i[p] < Len(nodes)
    /\ LET n == nodes[i[p] + 1]
       IN  IF n.nodeName # arg[p]
           THEN /\ nodes' = [nodes EXCEPT ![filtered[p] + 1] = n]
                /\ filtered' = [filtered EXCEPT ![p] = @ + 1]
           ELSE UNCHANGED <<nodes, filtered>>
    /\ i' = [i EXCEPT ![p] = @ + 1]
    /\ UNCHANGED <<config, closure, mutex, pool, pc, arg, keyArg, buf, hasher,
                   idx, ret, committed, removed, batches>>

\* mutant: h.nodes is cut one node short of the filtered slice
RemAssignOneShort(p) ==
    /\ pc[p] = "rem_loop"
    /\ i[p] >= Len(nodes)
    /\ nodes' = SubSeq(nodes, 1, filtered[p] - 1)
    /\ pc' = [pc EXCEPT ![p] = "rem_unlock"]
    /\ UNCHANGED <<config, closure, mutex, pool, arg, keyArg, i, buf,
                   filtered, hasher, idx, ret, committed, removed, batches>>

\* mutant: h.nodes keeps its length, the filtered slice is not assigned
RemAssignMissing(p) ==
    /\ pc[p] = "rem_loop"
    /\ i[p] >= Len(nodes)
    /\ pc' = [pc EXCEPT ![p] = "rem_unlock"]
    /\ UNCHANGED <<config, closure, nodes, mutex, pool, arg, keyArg, i, buf,
                   filtered, hasher, idx, ret, committed, removed, batches>>

\* h.nodes = filtered
RemAssign(p) ==
    /\ pc[p] = "rem_loop"
    /\ i[p] >= Len(nodes)
    /\ nodes' = SubSeq(nodes, 1, filtered[p])
    /\ pc' = [pc EXCEPT ![p] = "rem_unlock"]
    /\ UNCHANGED <<config, closure, mutex, pool, arg, keyArg, i, buf,
                   filtered, hasher, idx, ret, committed, removed, batches>>

\* the deferred h.Unlock(); RemoveNode returns
RemUnlock(p) ==
    /\ pc[p] = "rem_unlock"
    /\ writer' = IF writer = p THEN NoProc ELSE writer
    /\ filtered' = [filtered EXCEPT ![p] = 0]
    /\ i' = [i EXCEPT ![p] = 0]
    /\ committed' = nodes
    /\ removed' = removed \cup {arg[p]}
    /\ batches' = [batches EXCEPT ![arg[p]] = 0]
    /\ pc' = [pc EXCEPT ![p] = "idle"]
    /\ arg' = [arg EXCEPT ![p] = 0]
    /\ ret' = [ret EXCEPT ![p] = NoRet]
    /\ UNCHANGED <<config, closure, keyArg, nodes, readers, pool, buf, hasher,
                   idx>>

\* ---------------------------------------------------------------- GetNode
CallGetNode(p, key) ==
    /\ Idle(p)
    /\ pc' = [pc EXCEPT ![p] = "get_rlock"]
    /\ keyArg' = [keyArg EXCEPT ![p] = key]
    /\ ret' = [ret EXCEPT ![p] = NoRet]
    /\ UNCHANGED <<config, closure, arg, nodes, mutex, pool, i, buf, filtered,
                   hasher, idx, committed, removed, batches>>

\* mutant: the empty-ring return leaves without the deferred RUnlock
GetEmptyLeaksRLock(p) ==
    /\ pc[p] = "get_rlock"
    /\ CanRLock
    /\ Len(nodes) = 0
    /\ readers' = readers \cup {p}
    /\ pc' = [pc EXCEPT ![p] = "idle"]
    /\ keyArg' = [keyArg EXCEPT ![p] = NoKey(variant)]
    /\ UNCHANGED <<config, closure, arg, nodes, writer, pool, i, buf,
                   filtered, hasher, idx, ret, committed, removed, batches>>

\* h.RLock(); len(h.nodes) == 0: return "", false
GetEmpty(p) ==
    /\ pc[p] = "get_rlock"
    /\ CanRLock
    /\ Len(nodes) = 0
    /\ readers' = readers \cup {p}
    /\ ret' = [ret EXCEPT ![p] = NoRet]
    /\ pc' = [pc EXCEPT ![p] = "get_runlock"]
    /\ UNCHANGED <<config, closure, nodes, writer, pool, arg, keyArg, i, buf,
                   filtered, hasher, idx, committed, removed, batches>>

\* h.RLock(); targetHash from the key; idx := sort.Search(...); the wrap
GetSearch(p) ==
    /\ pc[p] = "get_rlock"
    /\ CanRLock
    /\ Len(nodes) # 0
    /\ readers' = readers \cup {p}
    /\ IF variant = "string"
       THEN \E g \in PoolGet :
                /\ pool' = g[2]
                /\ hasher' = [hasher EXCEPT ![p] =
                                  HashWrite(HashReset(g[1]), keyArg[p])]
                /\ idx' = [idx EXCEPT ![p] = WrapIndex(nodes,
                       Search(nodes, StringTarget(dict, g[1], keyArg[p])))]
       ELSE /\ idx' = [idx EXCEPT ![p] = WrapIndex(nodes,
                       Search(nodes, Int64Target(keyArg[p])))]
            /\ UNCHANGED <<pool, hasher>>
    /\ pc' = [pc EXCEPT ![p] = "get_index"]
    /\ UNCHANGED <<config, closure, nodes, writer, arg, keyArg, i, buf,
                   filtered, ret, committed, removed, batches>>

\* return h.nodes[idx].nodeName, true; an index out of range panics
GetIndex(p) ==
    /\ pc[p] = "get_index"
    /\ ret' = [ret EXCEPT ![p] =
           IF idx[p] < Len(nodes)
           THEN [NoRet EXCEPT !.nodeName = nodes[idx[p] + 1].nodeName,
                              !.ok = TRUE]
           ELSE [NoRet EXCEPT !.panic = TRUE]]
    /\ pc' = [pc EXCEPT ![p] = "get_runlock"]
    /\ UNCHANGED <<config, closure, nodes, mutex, pool, arg, keyArg, i, buf,
                   filtered, hasher, idx, committed, removed, batches>>

\* the deferred h.hashCache.Put(hash) and h.RUnlock(); GetNode returns
GetRUnlock(p) ==
    /\ pc[p] = "get_runlock"
    /\ IF hasher[p] # NoHasher
       THEN pool' \in PoolPut(hasher[p])
       ELSE pool' = pool
    /\ hasher' = [hasher EXCEPT ![p] = NoHasher]
    /\ readers' = readers \ {p}
    /\ idx' = [idx EXCEPT ![p] = 0]
    /\ pc' = [pc EXCEPT ![p] = "idle"]
    /\ keyArg' = [keyArg EXCEPT ![p] = NoKey(variant)]
    /\ ret' = [ret EXCEPT ![p] = NoRet]
    /\ UNCHANGED <<config, closure, arg, nodes, writer, i, buf, filtered,
                   committed, removed, batches>>

\* -------------------------------------------------------------------- Len
CallLen(p) ==
    /\ Idle(p)
    /\ pc' = [pc EXCEPT ![p] = "len_rlock"]
    /\ arg' = [arg EXCEPT ![p] = 0]
    /\ ret' = [ret EXCEPT ![p] = NoRet]
    /\ UNCHANGED <<config, closure, keyArg, nodes, mutex, pool, i, buf,
                   filtered, hasher, idx, committed, removed, batches>>

\* mutant: Len counts the names in the ring
LenRLockCountsNames(p) ==
    /\ pc[p] = "len_rlock"
    /\ CanRLock
    /\ readers' = readers \cup {p}
    /\ ret' = [ret EXCEPT ![p] = [NoRet EXCEPT !.len =
           Cardinality({nodes[k].nodeName : k \in 1 .. Len(nodes)})]]
    /\ pc' = [pc EXCEPT ![p] = "len_runlock"]
    /\ UNCHANGED <<config, closure, nodes, writer, pool, arg, keyArg, i, buf,
                   filtered, hasher, idx, committed, removed, batches>>

\* h.RLock(); return len(h.nodes)
LenRLock(p) ==
    /\ pc[p] = "len_rlock"
    /\ CanRLock
    /\ readers' = readers \cup {p}
    /\ ret' = [ret EXCEPT ![p] = [NoRet EXCEPT !.len = Len(nodes)]]
    /\ pc' = [pc EXCEPT ![p] = "len_runlock"]
    /\ UNCHANGED <<config, closure, nodes, writer, pool, arg, keyArg, i, buf,
                   filtered, hasher, idx, committed, removed, batches>>

\* the deferred h.RUnlock(); Len returns
LenRUnlock(p) ==
    /\ pc[p] = "len_runlock"
    /\ readers' = readers \ {p}
    /\ pc' = [pc EXCEPT ![p] = "idle"]
    /\ arg' = [arg EXCEPT ![p] = 0]
    /\ ret' = [ret EXCEPT ![p] = NoRet]
    /\ UNCHANGED <<config, closure, keyArg, nodes, writer, pool, i, buf,
                   filtered, hasher, idx, committed, removed, batches>>

\* the node names the callers of a run pass: those its history counts
CallNames == DOMAIN batches

Step(p) ==
        \/ \E name \in CallNames : CallAddNode(p, name)
        \/ AddLock(p)
        \/ AddGenerate(p)
        \/ AddWriteFails(p)
        \/ AddAppend(p)
        \/ AddSort(p)
        \/ AddUnlock(p)
        \/ \E name \in CallNames : CallRemoveNode(p, name)
        \/ RemLock(p)
        \/ RemFilter(p)
        \/ RemAssign(p)
        \/ RemUnlock(p)
        \/ \E key \in LookupKeys(variant) : CallGetNode(p, key)
        \/ GetEmpty(p)
        \/ GetSearch(p)
        \/ GetIndex(p)
        \/ GetRUnlock(p)
        \/ CallLen(p)
        \/ LenRLock(p)
        \/ LenRUnlock(p)

\* NumProcs goroutines share the ring
Next == \E p \in Procs : Step(p)

Spec == Init /\ [][Next]_vars

\* one goroutine makes all the calls, one after the other
NextSeq == Step(1)

SpecSeq == Init /\ [][NextSeq]_vars

\* a ring created with a positive virtualSpots, for callers that pass
\* NumTopoNames node names
InitTopo ==
    /\ NewClosure(0)
    /\ variant \in {"string", "int64"}
    /\ dict \in 0 .. MaxDict
    /\ \E spots \in 1 .. MaxSpots :
           /\ spotsArg = spots
           /\ virtualSpots = NewRing(spots)
    /\ nodes = <<>>
    /\ writer = NoProc
    /\ readers = {}
    /\ pool = EmptyBag
    /\ pc = [p \in Procs |-> "idle"]
    /\ arg = [p \in Procs |-> 0]
    /\ keyArg = [p \in Procs |-> NoKey(variant)]
    /\ i = [p \in Procs |-> 0]
    /\ buf = [p \in Procs |-> <<>>]
    /\ filtered = [p \in Procs |-> 0]
    /\ hasher = [p \in Procs |-> NoHasher]
    /\ idx = [p \in Procs |-> 0]
    /\ ret = [p \in Procs |-> NoRet]
    /\ committed = <<>>
    /\ removed = {}
    /\ batches = [n \in TopoNames |-> 0]

\* one goroutine makes all the calls on a ring of up to NumTopoNames owners
SpecTopo == InitTopo /\ [][NextSeq]_vars

\* Scheduling.  The Go scheduler runs every runnable goroutine again, so a
\* step that stays possible is taken (WF).  sync.RWMutex starves neither
\* side: a pending Lock holds back later RLock calls, and Unlock hands the
\* lock to the readers that wait before the next writer, so a goroutine
\* that can take the lock again and again does take it (SF).  Nothing
\* obliges a goroutine to make a call.
Fairness ==
    \A p \in Procs :
        /\ WF_vars(AddGenerate(p) \/ AddWriteFails(p) \/ AddAppend(p)
                       \/ AddSort(p) \/ AddUnlock(p))
        /\ WF_vars(RemFilter(p) \/ RemAssign(p) \/ RemUnlock(p))
        /\ WF_vars(GetIndex(p) \/ GetRUnlock(p) \/ LenRUnlock(p))
        /\ SF_vars(AddLock(p) \/ RemLock(p))
        /\ SF_vars(GetEmpty(p) \/ GetSearch(p) \/ LenRLock(p))

\* Which steps a goroutine can take depends on pc, the lock and the lengths,
\* never on a digest: the rings under fair scheduling are those of one
\* dictionary with the default virtualSpots or with a loop of MaxSpots rounds.
InitLive == Init /\ dict = 0 /\ virtualSpots \in {MaxSpots, DefaultVirtualSpots}

\* NumProcs goroutines share the ring under the scheduling above
SpecLive == InitLive /\ [][Next]_vars /\ Fairness

\* ==================================================================
\* xsync.Closure (and xsync.Stopper)
\* ==================================================================

\* a Closure after NewClosure with a negative, zero or positive timeout,
\* beside a ring its callers leave alone
InitClosure ==
    /\ \E timeout \in {0 - 1, 0, 1} : NewClosure(timeout)
    /\ variant = "string"
    /\ dict = 0
    /\ spotsArg = 0
    /\ virtualSpots = NewRing(0)
    /\ nodes = <<>>
    /\ writer = NoProc
    /\ readers = {}
    /\ pool = EmptyBag
    /\ pc = [p \in Procs |-> "idle"]
    /\ arg = [p \in Procs |-> 0]
    /\ keyArg = [p \in Procs |-> NoKey(variant)]
    /\ i = [p \in Procs |-> 0]
    /\ buf = [p \in Procs |-> <<>>]
    /\ filtered = [p \in Procs |-> 0]
    /\ hasher = [p \in Procs |-> NoHasher]
    /\ idx = [p \in Procs |-> 0]
    /\ ret = [p \in Procs |-> NoRet]
    /\ committed = <<>>
    /\ removed = {}
    /\ batches = [n \in Names |-> 0]

\* s.state.Load() >= stateTriggered
IsCloseTriggered == state >= stateTriggered
\* s.state.Load() >= stateClosing
OnClosing == state >= stateClosing

\* one more f was started
Launch(n) == IF n < 2 THEN n + 1 ELSE 2

\* ----------------------------------------------------------- TriggerClose
CallTriggerClose(p) ==
    /\ xpc[p] = "idle"
    /\ xpc' = [xpc EXCEPT ![p] = "tc_check"]
    /\ UNCHANGED <<ring, closeTimeout, state, chans, xlocks, xlocal, fstate,
                   launched, returned>>

\* if s.IsCloseTriggered() { return }
TcCheck(p) ==
    /\ xpc[p] = "tc_check"
    /\ IF IsCloseTriggered
       THEN /\ xpc' = [xpc EXCEPT ![p] = "idle"]
            /\ returned' = returned \cup {"TriggerClose"}
       ELSE /\ xpc' = [xpc EXCEPT ![p] = "tc_lock"]
            /\ UNCHANGED returned
    /\ UNCHANGED <<ring, closeTimeout, state, chans, xlocks, xlocal, fstate,
                   launched>>

\* s.triggerLock.Lock()
TcLock(p) ==
    /\ xpc[p] = "tc_lock"
    /\ triggerLock = NoProc
    /\ triggerLock' = p
    /\ xpc' = [xpc EXCEPT ![p] = "tc_recheck"]
    /\ UNCHANGED <<ring, closeTimeout, state, chans, closingLock, xlocal,
                   fstate, launched, returned>>

\* the double check: if s.IsCloseTriggered() { return }
TcRecheck(p) ==
    /\ xpc[p] = "tc_recheck"
    /\ xpc' = [xpc EXCEPT ![p] =
                  IF IsCloseTriggered THEN "tc_unlock" ELSE "tc_cas"]
    /\ UNCHANGED <<ring, closeTimeout, state, chans, xlocks, xlocal, fstate,
                   launched, returned>>

\* s.state.CompareAndSwap(stateIdle, stateTriggered)
TcCas(p) ==
    /\ xpc[p] = "tc_cas"
    /\ IF state = stateIdle
       THEN /\ state' = stateTriggered
            /\ xpc' = [xpc EXCEPT ![p] = "tc_close"]
       ELSE /\ xpc' = [xpc EXCEPT ![p] = "tc_unlock"]
            /\ UNCHANGED state
    /\ UNCHANGED <<ring, closeTimeout, chans, xlocks, xlocal, fstate,
                   launched, returned>>

\* close(s.closeTrigger)
TcClose(p) ==
    /\ xpc[p] = "tc_close"
    /\ closeTrigger' = TRUE
    /\ doubleClose' = (doubleClose \/ closeTrigger)
    /\ xpc' = [xpc EXCEPT ![p] = "tc_unlock"]
    /\ UNCHANGED <<ring, closeTimeout, state, closingChan, closedChan, xlocks,
                   xlocal, fstate, launched, returned>>

\* the deferred s.triggerLock.Unlock(); TriggerClose returns
TcUnlock(p) ==
    /\ xpc[p] = "tc_unlock"
    /\ triggerLock' = NoProc
    /\ xpc' = [xpc EXCEPT ![p] = "idle"]
    /\ returned' = returned \cup {"TriggerClose"}
    /\ UNCHANGED <<ring, closeTimeout, state, chans, closingLock, xlocal,
                   fstate, launched>>

\* ---------------------------------------------------------------- DoClose
CallDoClose(p) ==
    /\ xpc[p] = "idle"
    /\ xpc' = [xpc EXCEPT ![p] = "ttc_lock"]
    /\ UNCHANGED <<ring, closeTimeout, state, chans, xlocks, xlocal, fstate,
                   launched, returned>>

\* transitionToClosing: s.closingLock.Lock()
TtcLock(p) ==
    /\ xpc[p] = "ttc_lock"
    /\ closingLock = NoProc
    /\ closingLock' = p
    /\ xpc' = [xpc EXCEPT ![p] = "ttc_load"]
    /\ UNCHANGED <<ring, closeTimeout, state, chans, triggerLock, xlocal,
                   fstate, launched, returned>>

\* mutant: the test currentState >= stateClosing is missing
TtcLoadNoCheck(p) ==
    /\ xpc[p] = "ttc_load"
    /\ currentState' = [currentState EXCEPT ![p] = state]
    /\ xpc' = [xpc EXCEPT ![p] = "ttc_cas"]
    /\ UNCHANGED <<ring, closeTimeout, state, chans, xlocks, transitioned,
                   xret, fstate, launched, returned>>

\* currentState := s.state.Load(); if currentState >= stateClosing { return false }
TtcLoad(p) ==
    /\ xpc[p] = "ttc_load"
    /\ currentState' = [currentState EXCEPT ![p] = state]
    /\ IF state >= stateClosing
       THEN /\ transitioned' = [transitioned EXCEPT ![p] = FALSE]
            /\ xpc' = [xpc EXCEPT ![p] = "ttc_unlock"]
       ELSE /\ xpc' = [xpc EXCEPT ![p] = "ttc_cas"]
            /\ UNCHANGED transitioned
    /\ UNCHANGED <<ring, closeTimeout, state, chans, xlocks, xret, fstate,
                   launched, returned>>

\* s.state.CompareAndSwap(currentState, stateClosing); return false if it fails
TtcCas(p) ==
    /\ xpc[p] = "ttc_cas"
    /\ IF state = currentState[p]
       THEN /\ state' = stateClosing
            /\ xpc' = [xpc EXCEPT ![p] = "ttc_close"]
            /\ UNCHANGED transitioned
       ELSE /\ transitioned' = [transitioned EXCEPT ![p] = FALSE]
            /\ xpc' = [xpc EXCEPT ![p] = "ttc_unlock"]
            /\ UNCHANGED state
    /\ UNCHANGED <<ring, closeTimeout, chans, xlocks, currentState, xret,
                   fstate, launched, returned>>

\* close(s.closingChan); return true
TtcClose(p) ==
    /\ xpc[p] = "ttc_close"
    /\ closingChan' = TRUE
    /\ doubleClose' = (doubleClose \/ closingChan)
    /\ transitioned' = [transitioned EXCEPT ![p] = TRUE]
    /\ xpc' = [xpc EXCEPT ![p] = "ttc_unlock"]
    /\ UNCHANGED <<ring, closeTimeout, state, closeTrigger, closedChan, xlocks,
                   currentState, xret, fstate, launched, returned>>

\* the deferred s.closingLock.Unlock(); back in DoClose: return nil when the
\* transition was not made, else the branch on s.closeTimeout <= 0
TtcUnlock(p) ==
    /\ xpc[p] = "ttc_unlock"
    /\ closingLock' = NoProc
    /\ IF ~transitioned[p]
       THEN /\ xret' = [xret EXCEPT ![p] = "nil"]
            /\ xpc' = [xpc EXCEPT ![p] = "dc_ret"]
       ELSE /\ xpc' = [xpc EXCEPT ![p] =
                         IF closeTimeout <= 0 THEN "dc_call" ELSE "dc_go"]
            /\ UNCHANGED xret
    /\ UNCHANGED <<ring, closeTimeout, state, chans, triggerLock, currentState,
                   transitioned, fstate, launched, returned>>

\* s.closeTimeout <= 0: f() is called in the caller's goroutine
DcCallF(p) ==
    /\ xpc[p] = "dc_call"
    /\ fstate' = [fstate EXCEPT ![p] = "running"]
    /\ launched' = Launch(launched)
    /\ xpc' = [xpc EXCEPT ![p] = "dc_in_f"]
    /\ UNCHANGED <<ring, closeTimeout, state, chans, xlocks, xlocal, returned>>

\* f() returns; return nil
DcFReturns(p) ==
    /\ xpc[p] = "dc_in_f"
    /\ fstate' = [fstate EXCEPT ![p] = "done"]
    /\ xret' = [xret EXCEPT ![p] = "nil"]
    /\ xpc' = [xpc EXCEPT ![p] = "ttd_cas"]
    /\ UNCHANGED <<ring, closeTimeout, state, chans, xlocks, currentState,
                   transitioned, launched, returned>>

\* context.WithTimeout; done := make(chan struct{}); go func() { ... f() }()
DcGo(p) ==
    /\ xpc[p] = "dc_go"
    /\ fstate' = [fstate EXCEPT ![p] = "running"]
    /\ launched' = Launch(launched)
    /\ xpc' = [xpc EXCEPT ![p] = "dc_select"]
    /\ UNCHANGED <<ring, closeTimeout, state, chans, xlocks, xlocal, returned>>

\* the started goroutine: f() returns and the deferred close(done) runs
FDone(p) ==
    /\ closeTimeout > 0
    /\ fstate[p] = "running"
    /\ fstate' = [fstate EXCEPT ![p] = "done"]
    /\ UNCHANGED <<ring, closeTimeout, state, chans, xlocks, xpc, xlocal,
                   launched, returned>>

\* select: case <-done: return nil
DcSelectDone(p) ==
    /\ xpc[p] = "dc_select"
    /\ fstate[p] = "done"
    /\ xret' = [xret EXCEPT ![p] = "nil"]
    /\ xpc' = [xpc EXCEPT ![p] = "ttd_cas"]
    /\ UNCHANGED <<ring, closeTimeout, state, chans, xlocks, currentState,
                   transitioned, fstate, launched, returned>>

\* select: case <-ctx.Done(): return ErrCloseTimeout
DcSelectTimeout(p) ==
    /\ xpc[p] = "dc_select"
    /\ xret' = [xret EXCEPT ![p] = "ErrCloseTimeout"]
    /\ xpc' = [xpc EXCEPT ![p] = "ttd_cas"]
    /\ UNCHANGED <<ring, closeTimeout, state, chans, xlocks, currentState,
                   transitioned, fstate, launched, returned>>

\* mutant: the compare-and-swap expects stateTriggered
TtdCasFromTriggered(p) ==
    /\ xpc[p] = "ttd_cas"
    /\ IF state = stateTriggered
       THEN /\ state' = stateClosed
            /\ xpc' = [xpc EXCEPT ![p] = "ttd_close"]
       ELSE /\ xpc' = [xpc EXCEPT ![p] = "dc_ret"]
            /\ UNCHANGED state
    /\ UNCHANGED <<ring, closeTimeout, chans, xlocks, xlocal, fstate,
                   launched, returned>>

\* the deferred transitionToClosed: s.state.CompareAndSwap(stateClosing, stateClosed)
TtdCas(p) ==
    /\ xpc[p] = "ttd_cas"
    /\ IF state = stateClosing
       THEN /\ state' = stateClosed
            /\ xpc' = [xpc EXCEPT ![p] = "ttd_close"]
       ELSE /\ xpc' = [xpc EXCEPT ![p] = "dc_ret"]
            /\ UNCHANGED state
    /\ UNCHANGED <<ring, closeTimeout, chans, xlocks, xlocal, fstate,
                   launched, returned>>

\* close(s.closedChan)
TtdClose(p) ==
    /\ xpc[p] = "ttd_close"
    /\ closedChan' = TRUE
    /\ doubleClose' = (doubleClose \/ closedChan)
    /\ xpc' = [xpc EXCEPT ![p] = "dc_ret"]
    /\ UNCHANGED <<ring, closeTimeout, state, closeTrigger, closingChan, xlocks,
                   xlocal, fstate, launched, returned>>

\* DoClose returns
DcReturn(p) ==
    /\ xpc[p] = "dc_ret"
    /\ returned' = returned \cup {"DoClose"}
                       \cup (IF transitioned[p] THEN {"closer"} ELSE {})
    /\ currentState' = [currentState EXCEPT ![p] = stateIdle]
    /\ transitioned' = [transitioned EXCEPT ![p] = FALSE]
    /\ xret' = [xret EXCEPT ![p] = "none"]
    /\ xpc' = [xpc EXCEPT ![p] = "idle"]
    /\ UNCHANGED <<ring, closeTimeout, state, chans, xlocks, fstate, launched>>

\* ------------------------------------------------------------- WaitClosed
CallWaitClosed(p) ==
    /\ xpc[p] = "idle"
    /\ xpc' = [xpc EXCEPT ![p] = "wc_recv"]
    /\ UNCHANGED <<ring, closeTimeout, state, chans, xlocks, xlocal, fstate,
                   launched, returned>>

\* <-s.closedChan
WcRecv(p) ==
    /\ xpc[p] = "wc_recv"
    /\ closedChan
    /\ xpc' = [xpc EXCEPT ![p] = "idle"]
    /\ UNCHANGED <<ring, closeTimeout, state, chans, xlocks, xlocal, fstate,
                   launched, returned>>

\* the steps of DoClose, of the f it starts, and of WaitClosed
StepDoClose(p) ==
        \/ CallDoClose(p)
        \/ TtcLock(p)
        \/ TtcLoad(p)
        \/ TtcCas(p)
        \/ TtcClose(p)
        \/ TtcUnlock(p)
        \/ DcCallF(p)
        \/ DcFReturns(p)
        \/ DcGo(p)
        \/ FDone(p)
        \/ DcSelectDone(p)
        \/ DcSelectTimeout(p)
        \/ TtdCas(p)
        \/ TtdClose(p)
        \/ DcReturn(p)
        \/ CallWaitClosed(p)
        \/ WcRecv(p)

\* the steps of TriggerClose
StepTriggerClose(p) ==
        \/ CallTriggerClose(p)
        \/ TcCheck(p)
        \/ TcLock(p)
        \/ TcRecheck(p)
        \/ TcCas(p)
        \/ TcClose(p)
        \/ TcUnlock(p)

\* NumClosers goroutines call TriggerClose, DoClose and WaitClosed
NextClosure == \E p \in Closers : StepDoClose(p) \/ StepTriggerClose(p)

SpecClosure == InitClosure /\ [][NextClosure]_vars

\* NumClosers goroutines call DoClose and WaitClosed, none TriggerClose
NextDoClose == \E p \in Closers : StepDoClose(p)

SpecDoClose == InitClosure /\ [][NextDoClose]_vars

\* the one DoClose call of a goroutine that has made none yet
CallDoCloseOnce(p) ==
    /\ "DoClose" \notin returned
    /\ CallDoClose(p)

\* the steps of a goroutine that calls DoClose once, and WaitClosed
StepOneDoClose(p) ==
        \/ CallDoCloseOnce(p)
        \/ TtcLock(p)
        \/ TtcLoad(p)
        \/ TtcCas(p)
        \/ TtcClose(p)
        \/ TtcUnlock(p)
        \/ DcCallF(p)
        \/ DcFReturns(p)
        \/ DcGo(p)
        \/ FDone(p)
        \/ DcSelectDone(p)
        \/ DcSelectTimeout(p)
        \/ TtdCas(p)
        \/ TtdClose(p)
        \/ DcReturn(p)
        \/ CallWaitClosed(p)
        \/ WcRecv(p)

\* the first goroutine calls DoClose once, and WaitClosed; the others call
\* TriggerClose
NextOneDoClose ==
    \/ StepOneDoClose(1)
    \/ \E p \in Closers \ {1} : StepTriggerClose(p)

SpecOneDoClose == InitClosure /\ [][NextOneDoClose]_vars

\* ==================================================================
\* Properties
\* ==================================================================

\* goroutines inside the critical section of a mutation / of a read
WriterCS(p) == pc[p] \in {"add_loop", "add_sort", "add_unlock",
                          "rem_loop", "rem_unlock"}
ReaderCS(p) == pc[p] \in {"get_index", "get_runlock", "len_runlock"}

\* the search target GetNode is meant to use for a key
TargetOf(key) ==
    IF variant = "string" THEN StringTarget(dict, 0, key) ELSE Int64Target(key)

\* linear scan: the lowest index (from 1) whose position is >= t, else 1
FirstAtLeast(s, t) ==
    IF \E k \in 1 .. Len(s) : s[k].hash >= t
    THEN CHOOSE k \in 1 .. Len(s) :
             /\ s[k].hash >= t
             /\ \A j \in 1 .. k - 1 : s[j].hash < t
    ELSE 1

\* s is sorted ascending by position
IsSorted(s) == \A k \in 1 .. Len(s) - 1 : s[k].hash <= s[k + 1].hash

Owned(s, name) == {k \in 1 .. Len(s) : s[k].nodeName = name}

Without(s, name) == SelectSeq(s, LAMBDA n : n.nodeName # name)

C2_SortedAfterMutation ==
    (\A p \in Procs : pc[p] \notin {"add_sort", "rem_loop"}) => IsSorted(nodes)

\* an AddNode is about to return whose batch had to be moved by the sort
C2_Witness ==
    \E p \in Procs :
        /\ pc[p] = "add_unlock"
        /\ ~ret[p].err
        /\ Len(committed) > 0
        /\ ~IsSorted(committed \o buf[p])
        /\ IsSorted(nodes)

\* successful AddNode calls of the names 1 .. n not undone by a RemoveNode
RECURSIVE SumBatches(_)
SumBatches(n) == IF n = 0 THEN 0 ELSE batches[n] + SumBatches(n - 1)

\* C3: every successful AddNode(name) makes h.nodes longer by exactly
\* virtualSpots and gives name virtualSpots more nodes than its earlier
\* successful AddNode calls left it, whether or not name is in the ring;
\* the n-th successful AddNode in a row leaves n * virtualSpots nodes.
C3_AddNodeAddsVirtualSpots ==
    \A p \in Procs :
        (pc[p] = "add_unlock" /\ ~ret[p].err) =>
            /\ Len(nodes) = Len(committed) + virtualSpots
            /\ Cardinality(Owned(nodes, arg[p])) =
                   (batches[arg[p]] + 1) * virtualSpots
            /\ Len(nodes) = (SumBatches(NumNames) + 1) * virtualSpots

\* the second successful AddNode of one name is about to return
C3_Witness ==
    \E p \in Procs :
        /\ pc[p] = "add_unlock"
        /\ ~ret[p].err
        /\ batches[arg[p]] = 1
        /\ Len(nodes) = Len(committed) + virtualSpots
        /\ Cardinality(Owned(nodes, arg[p])) = 2 * virtualSpots

\* C4: when RemoveNode(name) returns, h.nodes is the sequence it found with
\* exactly the nodes owned by name deleted: the others keep their order, the
\* length drops by the number of deleted nodes, and nothing changes for a
\* name that owns no node.
C4_RemoveNodeFilters ==
    \A p \in Procs :
        pc[p] = "rem_unlock" =>
            /\ nodes = Without(committed, arg[p])
            /\ Len(nodes) = Len(committed) - Cardinality(Owned(committed, arg[p]))
            /\ (Owned(committed, arg[p]) = {}) => nodes = committed

\* a RemoveNode is about to return that deleted two batches of its name and
\* left the nodes of another name
C4_Witness ==
    \E p \in Procs :
        /\ pc[p] = "rem_unlock"
        /\ batches[arg[p]] = 2
        /\ Cardinality(Owned(committed, arg[p])) = 2 * virtualSpots
        /\ Len(nodes) > 0
        /\ nodes = Without(committed, arg[p])

\* C5: a GetNode that finds a node returns a name that owns a node of the
\* sequence, and never a name whose RemoveNode has returned with no
\* successful AddNode of it since.
C5_RemovedNeverReturned ==
    \A p \in Procs :
        (pc[p] = "get_runlock" /\ ret[p].ok) =>
            /\ ret[p].nodeName \notin removed
            /\ Owned(nodes, ret[p].nodeName) # {}

\* a GetNode finds a node after the RemoveNode of another name has returned
C5_Witness ==
    \E p \in Procs :
        /\ pc[p] = "get_runlock"
        /\ ret[p].ok
        /\ removed # {}
        /\ ret[p].nodeName \notin removed

\* C6: GetNode returns ("", false) exactly when h.nodes is empty, and finds
\* a node for every key when it is not.
C6_NotFoundIffEmpty ==
    \A p \in Procs :
        pc[p] = "get_runlock" =>
            /\ (Len(nodes) = 0) <=> (ret[p].nodeName = NoName /\ ~ret[p].ok)
            /\ (Len(nodes) # 0) => (ret[p].ok /\ ret[p].nodeName \in Names)
            /\ ~ret[p].panic

\* a GetNode returns ("", false) on a ring all of whose nodes were removed
C6_Witness ==
    \E p \in Procs :
        /\ pc[p] = "get_runlock"
        /\ ret[p] = NoRet
        /\ Len(nodes) = 0
        /\ removed # {}

\* C7: two GetNode calls for the same key that read the ring with no
\* mutation between them return the same result, and while no mutation is
\* running h.nodes is what the last mutation left: GetNode and Len do not
\* change it.
C7_Deterministic ==
    /\ \A p, q \in Procs :
           (pc[p] = "get_runlock" /\ pc[q] = "get_runlock" /\ keyArg[p] = keyArg[q])
               => ret[p] = ret[q]
    /\ (\A p \in Procs : ~WriterCS(p)) => nodes = committed

\* two GetNode calls for one key are about to return together, both with
\* the same owner, on a ring that holds nodes of two names
C7_Witness ==
    \E p, q \in Procs :
        /\ p # q
        /\ pc[p] = "get_runlock" /\ pc[q] = "get_runlock"
        /\ keyArg[p] = keyArg[q]
        /\ ret[p].ok /\ ret[p] = ret[q]
        /\ \E k, l \in 1 .. Len(nodes) : nodes[k].nodeName # nodes[l].nodeName

\* C8: an AddNode whose Write failed returns the error and leaves h.nodes as
\* it found it, whatever the replica index of the failure.
C8_FailedAddNodeChangesNothing ==
    \A p \in Procs :
        (pc[p] = "add_unlock" /\ ret[p].err) =>
            /\ nodes = committed
            /\ Len(nodes) = Len(committed)

\* a Write fails after the first virtual node of the batch was generated,
\* on a ring that already holds nodes
C8_Witness ==
    \E p \in Procs :
        /\ pc[p] = "add_unlock"
        /\ ret[p].err
        /\ i[p] >= 1
        /\ Len(buf[p]) >= 1
        /\ Len(committed) > 0
        /\ nodes = committed

\* C9: whenever a GetNode or a Len is inside its critical section, h.nodes
\* is the sequence the last complete mutation left, Len returns its length
\* and GetNode's index is in it.
C9_ReadersSeeCommitted ==
    \A p \in Procs :
        ReaderCS(p) =>
            /\ nodes = committed
            /\ pc[p] = "len_runlock" => ret[p].len = Len(committed)
            /\ (pc[p] = "get_runlock" /\ ret[p].ok) =>
                   Owned(committed, ret[p].nodeName) # {}

\* a GetNode reads a ring of several nodes while an AddNode or a RemoveNode
\* waits for the lock
C9_Witness ==
    \E p, q \in Procs :
        /\ pc[p] = "get_index"
        /\ pc[q] \in {"add_lock", "rem_lock"}
        /\ Len(nodes) >= 2
        /\ nodes = committed

\* C10: an AddNode or RemoveNode inside its critical section is alone in
\* it, and GetNode indexes h.nodes only below its length.
C10_WriterExcludesAll ==
    /\ \A p, q \in Procs :
           (p # q /\ WriterCS(p)) => (~WriterCS(q) /\ ~ReaderCS(q))
    /\ \A p \in Procs :
           /\ pc[p] = "get_index" => idx[p] < Len(nodes)
           /\ ~ret[p].panic

\* two readers are inside their critical sections together
C10_Witness ==
    \E p, q \in Procs :
        /\ p # q
        /\ pc[p] = "get_index"
        /\ pc[q] \in {"get_index", "len_runlock"}
        /\ readers = {p, q}
        /\ idx[p] < Len(nodes)

\* C11: under fair scheduling every AddNode, RemoveNode, GetNode and Len
\* call that has started returns, and whenever every call has returned the
\* ring lock is held by nobody: each exit path, AddNode's error return and
\* GetNode's empty-ring return among them, has released it.
C11_EveryCallReturns ==
    /\ \A p \in Procs : (pc[p] # "idle") ~> (pc[p] = "idle")
    /\ []((\A p \in Procs : Idle(p)) => (writer = NoProc /\ readers = {}))

\* an AddNode on its error return still holds the lock another call waits for
C11_Witness ==
    \E p, q \in Procs :
        /\ pc[p] = "add_unlock"
        /\ ret[p].err
        /\ writer = p
        /\ pc[q] \in {"add_lock", "rem_lock", "get_rlock", "len_rlock"}

\* C12: whenever no mutation is running, the length of h.nodes, and so
\* every result of Len, is virtualSpots times the number of successful
\* AddNode calls not followed by a RemoveNode of their name: a multiple of
\* virtualSpots that counts virtual nodes, not names.
C12_LenCountsLiveBatches ==
    /\ (\A p \in Procs : ~WriterCS(p)) =>
           Len(nodes) = virtualSpots * SumBatches(NumNames)
    /\ \A p \in Procs :
           pc[p] = "len_runlock" =>
               /\ ret[p].len = virtualSpots * SumBatches(NumNames)
               /\ ret[p].len % virtualSpots = 0

\* Len is about to return 2 * virtualSpots on a ring that holds two batches
\* of one name, after another name was removed
C12_Witness ==
    \E p \in Procs, n \in Names :
        /\ pc[p] = "len_runlock"
        /\ batches[n] = 2
        /\ removed # {}
        /\ ret[p].len = 2 * virtualSpots
        /\ \A k \in 1 .. Len(nodes) : nodes[k].nodeName = n

\* |key| as a number
AbsKey(key) == IF key < 0 THEN 0 - key ELSE key

\* the owner the int64 ring's search gives for a key
Int64Owner(key) ==
    nodes[WrapIndex(nodes, Search(nodes, Int64Target(key))) + 1].nodeName

\* C13: the int64 ring searches for |key| itself, not for a digest of it:
\* GetNode returns the owner of the first node at or above |key| (index 0
\* when there is none), k and -k have the same owner, and for the least
\* int64, whose negation overflows, the target is 2^63.
C13_Int64TargetIsAbs ==
    variant = "int64" =>
        /\ \A p \in Procs :
               (pc[p] = "get_runlock" /\ Len(nodes) # 0) =>
                   ret[p].nodeName =
                       nodes[FirstAtLeast(nodes, AbsKey(keyArg[p]))].nodeName
        /\ ((\A p \in Procs : Idle(p)) /\ Len(nodes) # 0) =>
               \A k \in 0 .. MaxInt64 : Int64Owner(k) = Int64Owner(0 - k)
        /\ Int64Target(MinInt64) = Pow2(HashBits - 1)

\* GetNode of the least int64 has found a node at or above 2^63 that is not
\* the first of the ring and belongs to another owner than the first
C13_Witness ==
    \E p \in Procs :
        /\ variant = "int64"
        /\ pc[p] = "get_runlock"
        /\ ret[p].ok
        /\ keyArg[p] = MinInt64
        /\ nodes[1].hash < Pow2(HashBits - 1)
        /\ nodes[Len(nodes)].hash >= Pow2(HashBits - 1)
        /\ ret[p].nodeName # nodes[1].nodeName

\* C14: the ring is created empty, with virtualSpots equal to the argument
\* of NewRing / NewInt64Ring when that is positive and 160 when it is not,
\* and no step of AddNode, RemoveNode, GetNode or Len changes virtualSpots.
C14_VirtualSpotsFixed ==
    /\ nodes = <<>>
    /\ [](virtualSpots = (IF spotsArg > 0 THEN spotsArg ELSE 160))
    /\ [][virtualSpots' = virtualSpots]_vars

\* a GetNode is about to return on a ring that was created with a
\* non-positive argument
C14_Witness ==
    \E p \in Procs :
        /\ spotsArg <= 0
        /\ virtualSpots = 160
        /\ pc[p] = "get_runlock"

\* the position AddNode gives replica k of a name, from a fresh hasher
ReplicaPosition(name, k) ==
    LET digest == Sum64(dict, HashWrite(0, <<name, k>>))
    IN  IF variant = "string" THEN digest % Uint32Mod ELSE digest

\* a goroutine whose AddNode has generated its whole batch
BatchReady(p) == pc[p] \in {"add_sort", "add_unlock"} /\ ~ret[p].err

KeyDigest(key) == Sum64(dict, HashWrite(0, key))

\* the high-order and the low-order half of a digest
HighOrder32(digest) == digest \div Pow2(HashBits - (HashBits \div 2))
LowOrder32(digest) == digest % Pow2(HashBits \div 2)

\* C19 as stated: in the string ring the position of every virtual node is
\* the high-order 32 bits of the digest of its replica key, and a lookup
\* searches for the high-order 32 bits of the digest of its key.
C19_HighOrderBits ==
    variant = "string" =>
        /\ \A k \in 1 .. Len(nodes) :
               nodes[k].hash = HighOrder32(KeyDigest(nodes[k].key))
        /\ \A p \in Procs :
               (pc[p] = "get_runlock" /\ Len(nodes) # 0) =>
                   ret[p].nodeName = nodes[FirstAtLeast(nodes,
                       HighOrder32(KeyDigest(keyArg[p])))].nodeName

\* C19 amended: in the string ring the position of every virtual node is
\* the low-order 32 bits of the digest of its replica key, and a lookup
\* searches for the low-order 32 bits of the digest of its key.
C19_LowOrderBits ==
    variant = "string" =>
        /\ \A k \in 1 .. Len(nodes) :
               nodes[k].hash = LowOrder32(KeyDigest(nodes[k].key))
        /\ \A p \in Procs :
               (pc[p] = "get_runlock" /\ Len(nodes) # 0) =>
                   ret[p].nodeName = nodes[FirstAtLeast(nodes,
                       LowOrder32(KeyDigest(keyArg[p])))].nodeName

\* a lookup on the string ring has found a node for a key whose digest has
\* different halves, on a ring with a node whose digest has different halves
C19_Witness ==
    \E p \in Procs :
        /\ variant = "string"
        /\ pc[p] = "get_runlock"
        /\ ret[p].ok
        /\ HighOrder32(KeyDigest(keyArg[p])) # LowOrder32(KeyDigest(keyArg[p]))
        /\ \E k \in 1 .. Len(nodes) :
               HighOrder32(KeyDigest(nodes[k].key)) # nodes[k].hash

\* the nodes of s at position h, in the order s has them
AtPosition(s, h) == SelectSeq(s, LAMBDA n : n.hash = h)

\* position h is shared by nodes of different owners in s
SharedPosition(s, h) ==
    \E a, b \in 1 .. Len(s) :
        s[a].hash = h /\ s[b].hash = h /\ s[a].nodeName # s[b].nodeName

\* C20 as stated: the sort of AddNode is stable: when AddNode is about to
\* return, the nodes at each position shared by different owners are in the
\* order they had with the batch appended after the nodes that were there,
\* so that the node that was placed first is the first at its position.
C20_SortIsStable ==
    \A p \in Procs :
        (pc[p] = "add_unlock" /\ ~ret[p].err) =>
            \A k \in 1 .. Len(nodes) :
                SharedPosition(nodes, nodes[k].hash) =>
                    AtPosition(nodes, nodes[k].hash) =
                        AtPosition(committed \o buf[p], nodes[k].hash)

\* no goroutine is inside a DoClose call
NoDoCloseRunning == \A p \in Closers : xpc[p] \in {"idle", "wc_recv"}

\* C16: with any number of goroutines calling DoClose on one Closure, f is
\* started at most once, and exactly once in total when DoClose calls have
\* been made and all have returned; a call that did not make the
\* transition to closing returns nil without starting f, and so does every
\* call that found closing started.
C16_ClosedExactlyOnce ==
    /\ launched <= 1
    /\ ~doubleClose
    /\ ("DoClose" \in returned /\ NoDoCloseRunning) => launched = 1
    /\ \A p \in Closers :
           xpc[p] = "dc_ret" =>
               /\ ~transitioned[p] => xret[p] = "nil"
               /\ currentState[p] >= stateClosing =>
                      (~transitioned[p] /\ xret[p] = "nil")
               /\ transitioned[p] => fstate[p] # "none"

\* two DoClose calls are about to return together: one made the transition
\* and started f, the other returns nil without having started one
C16_Witness ==
    \E p, q \in Closers :
        /\ xpc[p] = "dc_ret" /\ xpc[q] = "dc_ret"
        /\ transitioned[p] /\ fstate[p] # "none"
        /\ ~transitioned[q] /\ fstate[q] = "none" /\ xret[q] = "nil"
        /\ launched = 1

\* C17 as stated: once a TriggerClose call has returned, IsCloseTriggered()
\* is true and the CloseTriggered() channel is closed, and no channel was
\* closed twice.
C17_TriggerClosesChannel ==
    "TriggerClose" \in returned =>
        /\ IsCloseTriggered
        /\ closeTrigger
        /\ ~doubleClose

\* C18: a DoClose call that made the transition to closing is about to
\* return, or has returned, only with the state closed and closedChan
\* closed, so that WaitClosed does not block; it returns nil, or
\* ErrCloseTimeout when the timeout is positive.
C18_CloserLeavesClosed ==
    /\ \A p \in Closers :
           (xpc[p] = "dc_ret" /\ transitioned[p]) =>
               /\ state = stateClosed
               /\ closedChan
               /\ xret[p] \in {"nil", "ErrCloseTimeout"}
               /\ xret[p] = "ErrCloseTimeout" => closeTimeout > 0
    /\ "closer" \in returned => (state = stateClosed /\ closedChan)
    /\ \A p \in Closers :
           (xpc[p] = "wc_recv" /\ "closer" \in returned) => ENABLED WcRecv(p)

\* a DoClose is about to return ErrCloseTimeout while its f is still
\* running and another goroutine waits in WaitClosed, which can now go on
C18_Witness ==
    \E p, q \in Closers :
        /\ xpc[p] = "dc_ret"
        /\ transitioned[p]
        /\ xret[p] = "ErrCloseTimeout"
        /\ fstate[p] = "running"
        /\ xpc[q] = "wc_recv"
        /\ closedChan

\* the state of a new murmur3 instance after the bytes of one key
WrittenOnce(key) == HashWrite(0, key)

\* C21: every digest taken from a pooled instance is the digest a new
\* instance gives for the current key alone: each virtual node of a batch
\* is at the position of the digest of its own replica key, whatever the
\* instance carried from the pool or from the replica before, and GetNode
\* searches for the target of its own key; after a Write the instance
\* holds the bytes of that key only.
C21_DigestOfCurrentKeyOnly ==
    \A p \in Procs :
        /\ pc[p] \in {"add_loop", "add_sort", "add_unlock"} =>
               /\ \A a \in 1 .. Len(buf[p]) :
                      buf[p][a].hash = ReplicaPosition(arg[p], a - 1)
               /\ (pc[p] = "add_loop" /\ i[p] > 0) =>
                      hasher[p] = WrittenOnce(<<arg[p], i[p] - 1>>)
        /\ pc[p] = "get_index" =>
               /\ idx[p] = WrapIndex(nodes, Search(nodes, TargetOf(keyArg[p])))
               /\ variant = "string" => hasher[p] = WrittenOnce(keyArg[p])

\* The second replica of a batch was hashed with the instance that had
\* hashed the first, on a ring that earlier calls had filled, and the bytes
\* of the first replica key would have given the second another position.
C21_Witness ==
    \E p \in Procs :
        /\ pc[p] = "add_loop"
        /\ Len(buf[p]) = 2
        /\ Len(nodes) > 0
        /\ buf[p][2].hash = ReplicaPosition(arg[p], 1)
        /\ ringNode(variant, arg[p], 1,
               Sum64(dict, HashWrite(WrittenOnce(<<arg[p], 0>>),
                                     <<arg[p], 1>>))).hash # buf[p][2].hash

\* the goroutine holds a hash instance it took from h.hashCache
HoldsHasher(p) == hasher[p] # NoHasher

\* C22: a goroutine holds a hash instance exactly from the Get of its
\* AddNode, or of its GetNode on a non-empty string ring, to the deferred
\* Put of that call: also on AddNode's error return until the Put, never
\* after a call has returned, never in RemoveNode or Len, and not in a
\* GetNode that found the ring empty.
C22_HasherPutBack ==
    \A p \in Procs :
        /\ pc[p] \in {"add_loop", "add_sort", "add_unlock"} => HoldsHasher(p)
        /\ pc[p] = "get_index" => (HoldsHasher(p) <=> variant = "string")
        /\ (pc[p] = "get_runlock" /\ ~ret[p].ok) => ~HoldsHasher(p)
        /\ pc[p] \in {"idle", "add_lock", "rem_lock", "rem_loop", "rem_unlock",
                      "get_rlock", "len_rlock", "len_runlock"} =>
               ~HoldsHasher(p)
        /\ (\A q \in Procs : Idle(q)) => (\A q \in Procs : ~HoldsHasher(q))

\* an AddNode is on its error return and still holds its instance until
\* the deferred Put, while the pool keeps an instance that an earlier call
\* put back and the other goroutine holds none
C22_Witness ==
    \E p, q \in Procs :
        /\ p # q
        /\ pc[p] = "add_unlock"
        /\ ret[p].err
        /\ HoldsHasher(p)
        /\ Idle(q)
        /\ ~HoldsHasher(q)
        /\ BagCardinality(pool) = 1

\* the targets the lookup keys of the ring can have
Targets ==
    IF variant = "string" THEN 0 .. Uint32Mod - 1 ELSE 0 .. Pow2(HashBits - 1)

\* the owner GetNode finds in the non-empty sequence s for the target t
OwnerAt(s, t) == s[WrapIndex(s, Search(s, t)) + 1].nodeName

\* the owners that have a node in s
OwnersIn(s) == {s[k].nodeName : k \in 1 .. Len(s)}

\* C23: when RemoveNode(x) is about to return, every target whose owner
\* before the call was another name than x still has that owner, whether
\* the search found a node at or above the target or wrapped around to
\* index 0: only the keys x owned have moved.
C23_RemoveMovesOnlyOwnKeys ==
    \A p \in Procs :
        pc[p] = "rem_unlock" =>
            \A t \in Targets :
                (Len(committed) # 0 /\ OwnerAt(committed, t) # arg[p]) =>
                    /\ Len(nodes) # 0
                    /\ OwnerAt(nodes, t) = OwnerAt(committed, t)

\* RemoveNode(x) is about to return on a ring that held three owners: x
\* owned a target, and a target above every position, which wraps around,
\* belonged to another owner and still does
C23_Witness ==
    \E p \in Procs :
        /\ pc[p] = "rem_unlock"
        /\ Cardinality(OwnersIn(committed)) = 3
        /\ Cardinality(OwnersIn(nodes)) = 2
        /\ \E t \in Targets : OwnerAt(committed, t) = arg[p]
        /\ \E t \in Targets :
               /\ \A k \in 1 .. Len(committed) : committed[k].hash < t
               /\ committed[1].nodeName # arg[p]
               /\ OwnerAt(nodes, t) = committed[1].nodeName

\* the keys a caller can look up: on the string ring the replica keys of
\* the names and NumOther other strings, on the int64 ring every int64
AllKeys ==
    IF variant = "string"
    THEN (TopoNames \X (0 .. MaxSpots - 1)) \cup ({NoName} \X (0 .. NumOther - 1))
    ELSE MinInt64 .. MaxInt64

\* the owner GetNode returns for a key on the non-empty sequence s
OwnerOf(s, key) == OwnerAt(s, TargetOf(key))

\* C24 as stated: when AddNode(z) for a name z that was not in the ring is
\* about to return, every key has the owner it had before the call or z.
C24_AddMovesKeysOnlyToNew ==
    \A p \in Procs :
        (/\ pc[p] = "add_unlock"
         /\ ~ret[p].err
         /\ Len(committed) # 0
         /\ arg[p] \notin OwnersIn(committed)) =>
            \A key \in AllKeys :
                OwnerOf(nodes, key) \in {OwnerOf(committed, key), arg[p]}

\* C25 as stated: when AddNode(x) for a name x that is in the ring is about
\* to return, each node of its batch is equal to a node x had already, the
\* sequence is longer by virtualSpots, and every key has the owner it had
\* before the call.
C25_ReAddKeepsOwners ==
    \A p \in Procs :
        (/\ pc[p] = "add_unlock"
         /\ ~ret[p].err
         /\ arg[p] \in OwnersIn(committed)) =>
            /\ \A a \in 1 .. Len(buf[p]) :
                   \E k \in 1 .. Len(committed) : committed[k] = buf[p][a]
            /\ Len(nodes) = Len(committed) + virtualSpots
            /\ \A key \in AllKeys :
                   OwnerOf(nodes, key) = OwnerOf(committed, key)

\* the names that are in the ring with one batch each
LiveOnce == {n \in DOMAIN batches : batches[n] = 1}

\* the virtual nodes, as <<position, owner>>, of one batch for each name of N
SpotsOf(N) ==
    {<<ReplicaPosition(n, k), n>> : n \in N, k \in 0 .. virtualSpots - 1}

\* The owner of target t on the ring that received AddNode for the names
\* of N in ascending order, each batch sorted in behind the nodes that were
\* there: of the nodes at the first position at or above t (at the lowest
\* position when there is none), the one of the name added first.
AscendingOwner(N, t) ==
    LET all  == SpotsOf(N)
        cand == IF \E x \in all : x[1] >= t
                THEN {x \in all : x[1] >= t} ELSE all
        low  == CHOOSE x \in cand : \A y \in cand : x[1] <= y[1]
        tied == {x[2] : x \in {y \in cand : y[1] = low[1]}}
    IN  CHOOSE n \in tied : \A m \in tied : n <= m

ReplicaKeysIn(s) == OwnersIn(s) \X (0 .. virtualSpots - 1)

\* a node of another owner than name is at position h in s
OtherOwnerAt(s, name, h) ==
    \E k \in 1 .. Len(s) : s[k].hash = h /\ s[k].nodeName # name

\* C27: in the string ring, for every name n in the ring and every replica
\* index i below virtualSpots, the target of the lookup key "n:i" is the
\* position of the virtual node of n with that key, and GetNode("n:i")
\* returns n unless a node of another owner is at that position: so for
\* every such key when every call has returned, and so for the GetNode
\* calls that are about to return.
C27_ReplicaKeyFindsOwner ==
    variant = "string" =>
        /\ (\A p \in Procs : ~WriterCS(p)) =>
               \A key \in ReplicaKeysIn(nodes) :
                   /\ \E k \in 1 .. Len(nodes) :
                          /\ nodes[k].key = key
                          /\ nodes[k].nodeName = key[1]
                          /\ nodes[k].hash = TargetOf(key)
                   /\ ~OtherOwnerAt(nodes, key[1], TargetOf(key)) =>
                          OwnerOf(nodes, key) = key[1]
        /\ \A p \in Procs :
               (/\ pc[p] = "get_runlock"
                /\ keyArg[p] \in ReplicaKeysIn(nodes)
                /\ ~OtherOwnerAt(nodes, keyArg[p][1], TargetOf(keyArg[p]))) =>
                   ret[p].nodeName = keyArg[p][1]

\* GetNode of a replica key is about to return the name of the key, found
\* behind nodes of another owner at lower positions
C27_Witness ==
    \E p \in Procs :
        /\ variant = "string"
        /\ pc[p] = "get_runlock"
        /\ keyArg[p] \in ReplicaKeysIn(nodes)
        /\ ret[p].nodeName = keyArg[p][1]
        /\ nodes[1].nodeName # keyArg[p][1]
        /\ nodes[1].hash < TargetOf(keyArg[p])
        /\ ~OtherOwnerAt(nodes, keyArg[p][1], TargetOf(keyArg[p]))

\* 2^63, the first position no int64 key can exceed as a target
HalfRange == Pow2(HashBits - 1)

\* every position of s is below the target t
AllBelow(s, t) == \A k \in 1 .. Len(s) : s[k].hash < t

\* the node at index k (from 0) of s comes after a node at or above 2^63
PrecededByHigh(s, k) == \E j \in 1 .. k : s[j].hash >= HalfRange

\* C28: in the int64-keyed ring the search target of every key is at most
\* 2^63; the index GetNode computes is 0 by the wrap exactly when every
\* position is below the target, and it is never the index of a node that
\* comes after a node with a position of 2^63 or more: for the GetNode calls
\* that have computed their index, and for every int64 key on every ring
\* no mutation is at work on.
C28_TargetAtMostHalfRange ==
    variant = "int64" =>
        /\ \A key \in AllKeys : TargetOf(key) <= HalfRange
        /\ \A p \in Procs :
               pc[p] = "get_index" =>
                   /\ idx[p] < Len(nodes)
                   /\ AllBelow(nodes, TargetOf(keyArg[p])) => idx[p] = 0
                   /\ (idx[p] = 0 /\ nodes[1].hash < TargetOf(keyArg[p])) =>
                          AllBelow(nodes, TargetOf(keyArg[p]))
                   /\ ~PrecededByHigh(nodes, idx[p])
        /\ (\A p \in Procs : ~WriterCS(p)) =>
               \A key \in AllKeys :
                   Len(nodes) > 0 =>
                       ~PrecededByHigh(nodes,
                            WrapIndex(nodes, Search(nodes, TargetOf(key))))

\* GetNode(-2^63) has found the first of two nodes at or above 2^63, behind
\* a lower node: the second of the two is returned for no key
C28_Witness ==
    \E p \in Procs :
        /\ variant = "int64"
        /\ pc[p] = "get_index"
        /\ keyArg[p] = MinInt64
        /\ idx[p] > 0
        /\ idx[p] + 2 <= Len(nodes)
        /\ nodes[idx[p] + 1].hash >= HalfRange
        /\ PrecededByHigh(nodes, idx[p] + 1)

\* the nodes of s that are not owned by name, in their order
NodesOfOthers(s, name) == SelectSeq(s, LAMBDA n : n.nodeName # name)

\* how often the node r occurs in s
Occurrences(s, r) == Cardinality({k \in 1 .. Len(s) : s[k] = r})

\* s and t hold the same nodes, each as often, in whatever order
SameNodes(s, t) ==
    /\ Len(s) = Len(t)
    /\ \A k \in 1 .. Len(s) : Occurrences(s, s[k]) = Occurrences(t, s[k])

\* C29: AddNode(x) and RemoveNode(x) of concurrent goroutines take effect
\* one after the other as wholes. An AddNode(x) about to return has added
\* its whole batch of virtualSpots nodes or, on an error, none, a
\* RemoveNode(x) about to return has left no node of x, and both have left
\* the nodes of every other name as they were when the call took the lock;
\* whenever no mutation holds the lock every name has whole batches only,
\* so x on a ring that did not hold it has virtualSpots nodes or none.
C29_AddRemoveAsWholes ==
    /\ \A p \in Procs :
           pc[p] = "add_unlock" =>
               /\ SameNodes(NodesOfOthers(nodes, arg[p]),
                            NodesOfOthers(committed, arg[p]))
               /\ Cardinality(Owned(nodes, arg[p])) =
                      Cardinality(Owned(committed, arg[p]))
                          + (IF ret[p].err THEN 0 ELSE virtualSpots)
    /\ \A p \in Procs :
           pc[p] = "rem_unlock" =>
               /\ NodesOfOthers(nodes, arg[p]) =
                      NodesOfOthers(committed, arg[p])
               /\ Owned(nodes, arg[p]) = {}
    /\ writer = NoProc =>
           /\ nodes = committed
           /\ \A x \in CallNames :
                  Cardinality(Owned(nodes, x)) = batches[x] * virtualSpots

\* AddNode(x) on a ring of another name that did not hold x has added its
\* two nodes and is about to return, while RemoveNode(x) of the other
\* goroutine waits for the lock
C29_Witness ==
    \E p, q \in Procs :
        /\ pc[p] = "add_unlock"
        /\ ~ret[p].err
        /\ pc[q] = "rem_lock"
        /\ arg[q] = arg[p]
        /\ Owned(committed, arg[p]) = {}
        /\ Len(committed) > 0
        /\ virtualSpots = 2
        /\ Cardinality(Owned(nodes, arg[p])) = 2

\* C30 as stated: with one DoClose call beside concurrent TriggerClose
\* calls, f is started exactly once and the state reaches closed: the
\* DoClose call is about to return only after it made the transition to
\* closing and started f, and once it has returned f was started once,
\* the state is closed and closedChan is closed, so WaitClosed returns.
C30_OneDoCloseRunsF ==
    /\ launched <= 1
    /\ \A p \in Closers :
           xpc[p] = "dc_ret" => (transitioned[p] /\ fstate[p] # "none")
    /\ "DoClose" \in returned =>
           /\ launched = 1
           /\ state = stateClosed
           /\ closedChan

====
